---- MODULE Spec2Model ----
(***************************************************************************)
(* State-machine model of the CredenceBond contract                        *)
(* (contracts/credence_bond/src/lib.rs, emergency.rs).                     *)
(*                                                                         *)
(* Every public entry point is one action.  `last` observes the step: for  *)
(* a call that returns, its name, arguments, signers and the events it     *)
(* published; for a call that panics, only that a call failed, since the   *)
(* host rolls back every write and event of it.                            *)
(*                                                                         *)
(* Option<T> values (storage reads, checked arithmetic) are modelled as    *)
(* sequences of length at most one: <<>> is None, <<x>> is Some(x).        *)
(***************************************************************************)
EXTENDS Integers, Sequences, FiniteSets, TLC

VARIABLES
    admin,                  \* instance storage "admin": Option<Address>
    bond,                   \* instance storage "bond": Option<IdentityBond>
    early_exit_config,      \* early-exit config: Option<[treasury, penalty_bps]>
    emergency_config,       \* "emergency_config": Option<EmergencyConfig>
    emergency_record_seq,   \* "emergency_record_seq": Option<u64>
    records,                \* EmergencyDataKey::Record(id) -> record (a function)
    now,                    \* e.ledger().timestamp()
    ncalls,                 \* number of committed contract calls (model bound)
    last                    \* observation of the last step

vars == <<admin, bond, early_exit_config, emergency_config,
          emergency_record_seq, records, now, ncalls, last>>

store == <<admin, bond, early_exit_config, emergency_config,
           emergency_record_seq, records>>

-----------------------------------------------------------------------------
(* Bounds of the model *)

\* width of the signed amount type in the model (i128 in the source)
I128Bits == 21
\* width of the unsigned timestamp type in the model (u64 in the source)
U64Bits == 3
\* the ledger clock advances up to this timestamp
MaxNow == 1
\* number of committed contract calls explored
MaxCalls == 4
\* the same where two emergency withdrawals have to fit in
MaxEmergencyCalls == 5

I128_MAX == 2 ^ (I128Bits - 1) - 1
I128_MIN == -(2 ^ (I128Bits - 1))
U64_MAX == 2 ^ U64Bits - 1

-----------------------------------------------------------------------------
(* Inputs *)

\* principals (admin, governance, bond holder)
Addr == {"A", "G"}
Treasuries == {"T"}
Reasons == {"crisis"}
\* The remaining argument sets differ between the specifications below: see
\* BondInputs, AuthInputs and EmergencyInputs.

-----------------------------------------------------------------------------
(* Option and checked arithmetic *)

None == <<>>
Some(x) == <<x>>
IsSome(o) == o # <<>>
Unwrap(o) == o[1]

InI128(x) == I128_MIN <= x /\ x <= I128_MAX
InU64(x) == 0 <= x /\ x <= U64_MAX

checked_add_i128(a, b) == IF InI128(a + b) THEN Some(a + b) ELSE None
checked_sub_i128(a, b) == IF InI128(a - b) THEN Some(a - b) ELSE None
checked_add_u64(a, b) == IF InU64(a + b) THEN Some(a + b) ELSE None
saturating_add_u64(a, b) == IF a + b > U64_MAX THEN U64_MAX ELSE a + b
saturating_sub_u64(a, b) == IF a - b < 0 THEN 0 ELSE a - b

\* Rust's `/` on signed integers truncates toward zero.
TruncDiv(a, b) == IF a >= 0 THEN a \div b ELSE -((-a) \div b)

\* a.checked_mul(b) for b >= 0, decided without forming an out-of-range product
checked_mul_i128(a, b) ==
    IF b = 0 \/ a = 0 THEN Some(0)
    ELSE IF a > 0 THEN (IF a <= I128_MAX \div b THEN Some(a * b) ELSE None)
    ELSE (IF (-a) <= (-I128_MIN) \div b THEN Some(a * b) ELSE None)

-----------------------------------------------------------------------------
(* tiered_bond: tier classification *)

\* tier boundaries (lowest amount of each tier above Bronze)
TIER_SILVER_MIN == 2
TIER_GOLD_MIN == 3
TIER_PLATINUM_MIN == 5

get_tier_for_amount(amount) ==
    IF amount >= TIER_PLATINUM_MIN THEN "Platinum"
    ELSE IF amount >= TIER_GOLD_MIN THEN "Gold"
    ELSE IF amount >= TIER_SILVER_MIN THEN "Silver"
    ELSE "Bronze"

\* the events emit_tier_change_if_needed publishes
emit_tier_change_if_needed(identity, old_tier, new_tier) ==
    IF old_tier # new_tier
    THEN << [name |-> "tier_changed", data |-> <<identity, old_tier, new_tier>>] >>
    ELSE << >>

-----------------------------------------------------------------------------
(* early_exit_penalty: configuration and penalty *)

BPS_DENOMINATOR == 10000

early_exit_set_config_ok(penalty_bps) == penalty_bps <= BPS_DENOMINATOR

\* penalty = amount * penalty_bps / 10000 * time_remaining / total_duration,
\* every multiplication checked; None is a panic
calculate_penalty(amount, remaining, total_duration, penalty_bps) ==
    IF total_duration = 0 THEN None
    ELSE LET m1 == checked_mul_i128(amount, penalty_bps) IN
         IF ~IsSome(m1) THEN None
         ELSE LET m2 == checked_mul_i128(TruncDiv(Unwrap(m1), BPS_DENOMINATOR), remaining) IN
              IF ~IsSome(m2) THEN None
              ELSE Some(TruncDiv(Unwrap(m2), total_duration))

-----------------------------------------------------------------------------
(* rolling_bond: period and renewal *)

is_period_ended(t, bond_start, bond_duration) ==
    LET end == bond_start + bond_duration IN
    IF end > U64_MAX THEN FALSE ELSE t >= end

apply_renewal(b, t) ==
    [b EXCEPT !.bond_start = t, !.withdrawal_requested_at = 0]

-----------------------------------------------------------------------------
(* emergency.rs *)

set_config_ok(emergency_fee_bps) == emergency_fee_bps <= 10000

\* calculate_fee: None is the checked_mul panic
calculate_fee(amount, fee_bps) ==
    IF fee_bps = 0 THEN Some(0)
    ELSE LET m == checked_mul_i128(amount, fee_bps) IN
         IF IsSome(m) THEN Some(TruncDiv(Unwrap(m), 10000)) ELSE None

latest_record_id == IF IsSome(emergency_record_seq) THEN Unwrap(emergency_record_seq) ELSE 0

\* next_record_id skipping an id
next_record_id_skipping == checked_add_u64(latest_record_id, 2)

\* the id store_record assigns: None is "emergency record id overflow"
next_record_id == checked_add_u64(latest_record_id, 1)

\* record_key writing every record under the same key
record_key_reused(next_id) == 1

\* the key under which store_record writes the record with id next_id
record_key(next_id) == next_id

\* get_record(id): None is the "emergency record not found" panic
get_record(id) == IF id \in DOMAIN records THEN Some(records[id]) ELSE None

store_record(next_id, identity, gross_amount, fee_amount, net_amount, treasury, approved_admin, approved_governance, reason) ==
    LET record == [id |-> next_id,
                   identity |-> identity,
                   gross_amount |-> gross_amount,
                   fee_amount |-> fee_amount,
                   net_amount |-> net_amount,
                   treasury |-> treasury,
                   approved_admin |-> approved_admin,
                   approved_governance |-> approved_governance,
                   reason |-> reason,
                   timestamp |-> now]
        key == record_key(next_id)
    IN /\ emergency_record_seq' = Some(next_id)
       /\ records' = [k \in DOMAIN records \cup {key} |->
                        IF k = key THEN record ELSE records[k]]

-----------------------------------------------------------------------------
(* Observation of a call *)

\* placeholder for an address argument the call does not take
NoAddr == "-"

Call(op, auth, adm, gov, amount) ==
    [op |-> op, auth |-> auth, admin |-> adm, governance |-> gov, amount |-> amount]

Observe(call, ok, events) ==
    [op |-> call.op, auth |-> call.auth, admin |-> call.admin,
     governance |-> call.governance, amount |-> call.amount,
     ok |-> ok, events |-> events]

\* the call returns: its writes and events are committed
Commit(call, events) ==
    /\ ncalls' = ncalls + 1
    /\ last' = Observe(call, TRUE, events)
    /\ now' = now

\* the call panics: the host rolls back every write and event, and nothing
\* of the call but its failure is observable
Panic(call) ==
    /\ last' = Observe(Call("panic", {}, NoAddr, NoAddr, 0), FALSE, << >>)
    /\ UNCHANGED <<store, now, ncalls>>

Init ==
    /\ admin = None
    /\ bond = None
    /\ early_exit_config = None
    /\ emergency_config = None
    /\ emergency_record_seq = None
    /\ records = << >>
    /\ now = 0
    /\ ncalls = 0
    /\ last = Observe(Call("deploy", {}, NoAddr, NoAddr, 0), TRUE, << >>)

-----------------------------------------------------------------------------
(* lib.rs: administration *)

\* the "admin" read and comparison every admin-gated entry point starts with
is_stored_admin(adm) == IsSome(admin) /\ adm = Unwrap(admin)

\* address.require_auth()
require_auth(auth, address) == address \in auth

initialize(auth, adm) ==
    /\ admin' = Some(adm)
    /\ UNCHANGED <<bond, early_exit_config, emergency_config,
                   emergency_record_seq, records>>
    /\ Commit(Call("initialize", auth, adm, NoAddr, 0), << >>)

set_early_exit_config_ok(auth, adm, penalty_bps) ==
    /\ is_stored_admin(adm)
    /\ early_exit_set_config_ok(penalty_bps)

set_early_exit_config(auth, adm, treasury, penalty_bps) ==
    LET call == Call("set_early_exit_config", auth, adm, NoAddr, 0) IN
    IF set_early_exit_config_ok(auth, adm, penalty_bps)
    THEN /\ early_exit_config' = Some([treasury |-> treasury, penalty_bps |-> penalty_bps])
         /\ UNCHANGED <<admin, bond, emergency_config, emergency_record_seq, records>>
         /\ Commit(call, << >>)
    ELSE Panic(call)

set_emergency_config_ok(auth, adm, emergency_fee_bps) ==
    /\ is_stored_admin(adm)
    /\ require_auth(auth, adm)
    /\ set_config_ok(emergency_fee_bps)

set_emergency_config(auth, adm, governance, treasury, emergency_fee_bps, enabled) ==
    LET call == Call("set_emergency_config", auth, adm, governance, 0) IN
    IF set_emergency_config_ok(auth, adm, emergency_fee_bps)
    THEN /\ emergency_config' = Some([governance |-> governance,
                                      treasury |-> treasury,
                                      emergency_fee_bps |-> emergency_fee_bps,
                                      enabled |-> enabled])
         /\ UNCHANGED <<admin, bond, early_exit_config, emergency_record_seq, records>>
         /\ Commit(call, << >>)
    ELSE Panic(call)

set_emergency_mode_ok(auth, adm, governance) ==
    /\ is_stored_admin(adm)
    /\ IsSome(emergency_config)
    /\ governance = Unwrap(emergency_config).governance
    /\ require_auth(auth, adm)
    /\ require_auth(auth, governance)

\* emergency::set_enabled
set_enabled(enabled) ==
    emergency_config' = Some([Unwrap(emergency_config) EXCEPT !.enabled = enabled])

set_emergency_mode(auth, adm, governance, enabled) ==
    LET call == Call("set_emergency_mode", auth, adm, governance, 0) IN
    IF set_emergency_mode_ok(auth, adm, governance)
    THEN /\ set_enabled(enabled)
         /\ UNCHANGED <<admin, bond, early_exit_config, emergency_record_seq, records>>
         /\ Commit(call, << [name |-> "emergency_mode",
                             data |-> <<enabled, adm, governance, now>>] >>)
    ELSE Panic(call)

-----------------------------------------------------------------------------
(* lib.rs: emergency_withdraw *)

\* emergency_withdraw_approved without the `if !cfg.enabled` check
emergency_withdraw_approved_any_mode(auth, adm, governance, amount) ==
    /\ is_stored_admin(adm)
    /\ IsSome(emergency_config)
    /\ governance = Unwrap(emergency_config).governance
    /\ amount > 0
    /\ require_auth(auth, adm)
    /\ require_auth(auth, governance)

\* the checks before the bond is loaded (lib.rs 127-148)
emergency_withdraw_approved(auth, adm, governance, amount) ==
    /\ is_stored_admin(adm)
    /\ IsSome(emergency_config)
    /\ governance = Unwrap(emergency_config).governance
    /\ Unwrap(emergency_config).enabled
    /\ amount > 0
    /\ require_auth(auth, adm)
    /\ require_auth(auth, governance)

\* `if amount > available { panic!(...) }`
sufficient_balance(amount, available) == ~(amount > available)

\* emergency_debit taking only the net amount off the bond
emergency_debit_net(amount, fee_amount) == amount - fee_amount

\* the amount emergency_withdraw takes off bonded_amount
emergency_debit(amount, fee_amount) == amount

\* None is a panic; Some(r) carries the bond to persist and the record's amounts
emergency_withdraw_result(auth, adm, governance, amount) ==
    IF ~emergency_withdraw_approved(auth, adm, governance, amount) \/ ~IsSome(bond)
    THEN None
    ELSE
    LET b == Unwrap(bond)
        cfg == Unwrap(emergency_config)
        available == checked_sub_i128(b.bonded_amount, b.slashed_amount)
    IN
    IF ~IsSome(available) \/ ~sufficient_balance(amount, Unwrap(available)) THEN None
    ELSE
    LET fee == calculate_fee(amount, cfg.emergency_fee_bps) IN
    IF ~IsSome(fee) THEN None
    ELSE
    LET fee_amount == Unwrap(fee)
        net == checked_sub_i128(amount, fee_amount)
        bonded == checked_sub_i128(b.bonded_amount, emergency_debit(amount, fee_amount))
    IN
    IF ~IsSome(net) \/ ~IsSome(bonded) THEN None
    ELSE IF b.slashed_amount > Unwrap(bonded) THEN None
    ELSE IF ~IsSome(next_record_id) THEN None
    ELSE Some([bond |-> [b EXCEPT !.bonded_amount = Unwrap(bonded)],
               fee_amount |-> fee_amount,
               net_amount |-> Unwrap(net),
               treasury |-> cfg.treasury,
               record_id |-> Unwrap(next_record_id),
               old_tier |-> get_tier_for_amount(b.bonded_amount),
               new_tier |-> get_tier_for_amount(Unwrap(bonded))])

\* emergency_withdraw writing its record before the balance check, the write
\* surviving the failure of the call
emergency_withdraw_keeping_record(auth, adm, governance, amount, reason) ==
    LET call == Call("emergency_withdraw", auth, adm, governance, amount)
        res == emergency_withdraw_result(auth, adm, governance, amount)
    IN
    IF IsSome(res)
    THEN LET r == Unwrap(res) IN
         /\ store_record(r.record_id, r.bond.identity, amount, r.fee_amount,
                         r.net_amount, r.treasury, adm, governance, reason)
         /\ bond' = Some(r.bond)
         /\ UNCHANGED <<admin, early_exit_config, emergency_config>>
         /\ Commit(call,
                emit_tier_change_if_needed(r.bond.identity, r.old_tier, r.new_tier)
                \o << [name |-> "emergency_withdrawal",
                       data |-> <<r.record_id, r.bond.identity, amount,
                                  r.fee_amount, r.net_amount, reason, now>>] >>)
    ELSE IF /\ emergency_withdraw_approved(auth, adm, governance, amount)
            /\ IsSome(bond)
            /\ IsSome(next_record_id)
    THEN /\ store_record(Unwrap(next_record_id), Unwrap(bond).identity, amount, 0,
                         amount, Unwrap(emergency_config).treasury, adm,
                         governance, reason)
         /\ UNCHANGED <<admin, bond, early_exit_config, emergency_config>>
         /\ ncalls' = ncalls + 1
         /\ now' = now
         /\ last' = Observe(Call("panic", {}, NoAddr, NoAddr, 0), FALSE, << >>)
    ELSE Panic(call)

emergency_withdraw(auth, adm, governance, amount, reason) ==
    LET call == Call("emergency_withdraw", auth, adm, governance, amount)
        res == emergency_withdraw_result(auth, adm, governance, amount)
    IN
    IF IsSome(res)
    THEN LET r == Unwrap(res) IN
         /\ store_record(r.record_id, r.bond.identity, amount, r.fee_amount,
                         r.net_amount, r.treasury, adm, governance, reason)
         /\ bond' = Some(r.bond)
         /\ UNCHANGED <<admin, early_exit_config, emergency_config>>
         /\ Commit(call,
                emit_tier_change_if_needed(r.bond.identity, r.old_tier, r.new_tier)
                \o << [name |-> "emergency_withdrawal",
                       data |-> <<r.record_id, r.bond.identity, amount,
                                  r.fee_amount, r.net_amount, reason, now>>] >>)
    ELSE Panic(call)

-----------------------------------------------------------------------------
(* lib.rs: bond lifecycle *)

leaves_store_but_bond == UNCHANGED <<admin, early_exit_config, emergency_config,
                                     emergency_record_seq, records>>

\* the bond create_bond builds; None is "bond end timestamp would overflow"
create_bond_result(identity, amount, duration, is_rolling, notice_period_duration) ==
    IF ~IsSome(checked_add_u64(now, duration)) THEN None
    ELSE Some([identity |-> identity,
               bonded_amount |-> amount,
               bond_start |-> now,
               bond_duration |-> duration,
               slashed_amount |-> 0,
               active |-> TRUE,
               is_rolling |-> is_rolling,
               withdrawal_requested_at |-> 0,
               notice_period_duration |-> notice_period_duration])

create_bond(auth, identity, amount, duration, is_rolling, notice_period_duration) ==
    LET call == Call("create_bond", auth, NoAddr, NoAddr, amount)
        res == create_bond_result(identity, amount, duration, is_rolling,
                                  notice_period_duration)
    IN
    IF IsSome(res)
    THEN /\ bond' = res
         /\ leaves_store_but_bond
         /\ Commit(call, emit_tier_change_if_needed(identity, "Bronze",
                                                    get_tier_for_amount(amount)))
    ELSE Panic(call)

\* the common tail of the three withdrawals (lib.rs 283-291): the new
\* bonded_amount, None on a panic
debit_bond(b, amount) ==
    LET bonded == checked_sub_i128(b.bonded_amount, amount) IN
    IF ~IsSome(bonded) THEN None
    ELSE IF b.slashed_amount > Unwrap(bonded) THEN None
    ELSE Some([b EXCEPT !.bonded_amount = Unwrap(bonded)])

\* the conditions under which withdraw goes on to debit the bond
withdraw_allowed(b, amount) ==
    LET available == checked_sub_i128(b.bonded_amount, b.slashed_amount) IN
    /\ IsSome(available)
    /\ sufficient_balance(amount, Unwrap(available))

\* withdraw_result with neither balance check
withdraw_result_unchecked(amount) ==
    IF ~IsSome(bond) THEN None
    ELSE LET bonded == checked_sub_i128(Unwrap(bond).bonded_amount, amount) IN
         IF ~IsSome(bonded) THEN None
         ELSE Some([Unwrap(bond) EXCEPT !.bonded_amount = Unwrap(bonded)])

withdraw_result(amount) ==
    IF ~IsSome(bond) THEN None
    ELSE IF ~withdraw_allowed(Unwrap(bond), amount) THEN None
    ELSE debit_bond(Unwrap(bond), amount)

tier_events(old_bond, new_bond) ==
    emit_tier_change_if_needed(new_bond.identity,
                               get_tier_for_amount(old_bond.bonded_amount),
                               get_tier_for_amount(new_bond.bonded_amount))

withdraw(auth, amount) ==
    LET call == Call("withdraw", auth, NoAddr, NoAddr, amount)
        res == withdraw_result(amount)
    IN
    IF IsSome(res)
    THEN /\ bond' = res
         /\ leaves_store_but_bond
         /\ Commit(call, tier_events(Unwrap(bond), Unwrap(res)))
    ELSE Panic(call)

\* withdraw_early_result without the `if now >= end` check
withdraw_early_result_any_time(amount) ==
    IF ~IsSome(bond) THEN None
    ELSE
    LET b == Unwrap(bond)
        available == checked_sub_i128(b.bonded_amount, b.slashed_amount)
        end == saturating_add_u64(b.bond_start, b.bond_duration)
    IN
    IF ~IsSome(available) \/ ~sufficient_balance(amount, Unwrap(available)) THEN None
    ELSE IF ~IsSome(early_exit_config) THEN None
    ELSE
    LET cfg == Unwrap(early_exit_config)
        penalty == calculate_penalty(amount, saturating_sub_u64(end, now),
                                     b.bond_duration, cfg.penalty_bps)
        nb == debit_bond(b, amount)
    IN
    IF ~IsSome(penalty) \/ ~IsSome(nb) THEN None
    ELSE Some([bond |-> Unwrap(nb), penalty |-> Unwrap(penalty),
               treasury |-> cfg.treasury])

\* None is a panic; Some(r) carries the bond to persist and the penalty logged
withdraw_early_result(amount) ==
    IF ~IsSome(bond) THEN None
    ELSE
    LET b == Unwrap(bond)
        available == checked_sub_i128(b.bonded_amount, b.slashed_amount)
        end == saturating_add_u64(b.bond_start, b.bond_duration)
    IN
    IF ~IsSome(available) \/ ~sufficient_balance(amount, Unwrap(available)) THEN None
    ELSE IF now >= end THEN None
    ELSE IF ~IsSome(early_exit_config) THEN None
    ELSE
    LET cfg == Unwrap(early_exit_config)
        penalty == calculate_penalty(amount, saturating_sub_u64(end, now),
                                     b.bond_duration, cfg.penalty_bps)
        nb == debit_bond(b, amount)
    IN
    IF ~IsSome(penalty) \/ ~IsSome(nb) THEN None
    ELSE Some([bond |-> Unwrap(nb), penalty |-> Unwrap(penalty),
               treasury |-> cfg.treasury])

withdraw_early(auth, amount) ==
    LET call == Call("withdraw_early", auth, NoAddr, NoAddr, amount)
        res == withdraw_early_result(amount)
    IN
    IF IsSome(res)
    THEN LET r == Unwrap(res) IN
         /\ bond' = Some(r.bond)
         /\ leaves_store_but_bond
         /\ Commit(call,
                << [name |-> "penalty_applied",
                    data |-> <<r.bond.identity, amount, r.penalty, r.treasury>>] >>
                \o tier_events(Unwrap(bond), r.bond))
    ELSE Panic(call)

request_withdrawal_ok ==
    /\ IsSome(bond)
    /\ Unwrap(bond).is_rolling
    /\ ~(Unwrap(bond).withdrawal_requested_at # 0)

request_withdrawal(auth) ==
    LET call == Call("request_withdrawal", auth, NoAddr, NoAddr, 0) IN
    IF request_withdrawal_ok
    THEN /\ bond' = Some([Unwrap(bond) EXCEPT !.withdrawal_requested_at = now])
         /\ leaves_store_but_bond
         /\ Commit(call, << [name |-> "withdrawal_requested",
                             data |-> <<Unwrap(bond).identity, now>>] >>)
    ELSE Panic(call)

\* whether renew_if_rolling goes on to renew the loaded bond
renews(b) ==
    /\ b.is_rolling
    /\ is_period_ended(now, b.bond_start, b.bond_duration)

renew_if_rolling(auth) ==
    LET call == Call("renew_if_rolling", auth, NoAddr, NoAddr, 0) IN
    IF ~IsSome(bond) THEN Panic(call)
    ELSE IF ~renews(Unwrap(bond))
    THEN /\ UNCHANGED store
         /\ Commit(call, << >>)
    ELSE LET nb == apply_renewal(Unwrap(bond), now) IN
         /\ bond' = Some(nb)
         /\ leaves_store_but_bond
         /\ Commit(call, << [name |-> "bond_renewed",
                             data |-> <<nb.identity, nb.bond_start, nb.bond_duration>>] >>)

\* the checks slash makes on its caller (lib.rs 404-411)
slash_authorized(auth, adm) == is_stored_admin(adm)

\* slash_amount without the clamp to bonded_amount
slash_amount_unclamped(b, amount) == checked_add_i128(b.slashed_amount, amount)

\* the slashed_amount slash stores; None is "slashing caused overflow"
slash_amount(b, amount) ==
    LET new_slashed == checked_add_i128(b.slashed_amount, amount) IN
    IF ~IsSome(new_slashed) THEN None
    ELSE IF Unwrap(new_slashed) > b.bonded_amount THEN Some(b.bonded_amount)
    ELSE new_slashed

slash_result(auth, adm, amount) ==
    IF ~slash_authorized(auth, adm) \/ ~IsSome(bond) THEN None
    ELSE LET s == slash_amount(Unwrap(bond), amount) IN
         IF ~IsSome(s) THEN None
         ELSE Some([Unwrap(bond) EXCEPT !.slashed_amount = Unwrap(s)])

slash(auth, adm, amount) ==
    LET call == Call("slash", auth, adm, NoAddr, amount)
        res == slash_result(auth, adm, amount)
    IN
    IF IsSome(res)
    THEN /\ bond' = res
         /\ leaves_store_but_bond
         /\ Commit(call, << [name |-> "slashed",
                             data |-> <<Unwrap(res).identity, amount,
                                        Unwrap(res).slashed_amount>>] >>)
    ELSE Panic(call)

top_up_result(amount) ==
    IF ~IsSome(bond) THEN None
    ELSE LET bonded == checked_add_i128(Unwrap(bond).bonded_amount, amount) IN
         IF ~IsSome(bonded) THEN None
         ELSE Some([Unwrap(bond) EXCEPT !.bonded_amount = Unwrap(bonded)])

top_up(auth, amount) ==
    LET call == Call("top_up", auth, NoAddr, NoAddr, amount)
        res == top_up_result(amount)
    IN
    IF IsSome(res)
    THEN /\ bond' = res
         /\ leaves_store_but_bond
         /\ Commit(call, tier_events(Unwrap(bond), Unwrap(res)))
    ELSE Panic(call)

extend_duration_result(additional_duration) ==
    IF ~IsSome(bond) THEN None
    ELSE LET b == Unwrap(bond)
             duration == checked_add_u64(b.bond_duration, additional_duration)
         IN
         IF ~IsSome(duration) THEN None
         ELSE IF ~IsSome(checked_add_u64(b.bond_start, Unwrap(duration))) THEN None
         ELSE Some([b EXCEPT !.bond_duration = Unwrap(duration)])

extend_duration(auth, additional_duration) ==
    LET call == Call("extend_duration", auth, NoAddr, NoAddr, 0)
        res == extend_duration_result(additional_duration)
    IN
    IF IsSome(res)
    THEN /\ bond' = res
         /\ leaves_store_but_bond
         /\ Commit(call, << >>)
    ELSE Panic(call)

\* the ledger closes and the timestamp moves on
advance_time ==
    /\ now < MaxNow
    /\ now' = now + 1
    /\ last' = Observe(Call("advance_time", {}, NoAddr, NoAddr, 0), TRUE, << >>)
    /\ UNCHANGED <<store, ncalls>>

\* the ledger goes on closing beyond MaxNow, up to the last timestamp of the
\* type
advance_time_late ==
    /\ now >= MaxNow
    /\ now < U64_MAX
    /\ now' = now + 1
    /\ last' = Observe(Call("advance_time", {}, NoAddr, NoAddr, 0), TRUE, << >>)
    /\ UNCHANGED <<store, ncalls>>

-----------------------------------------------------------------------------
(* read-only entry points *)

get_identity_state == bond
get_tier == IF IsSome(bond) THEN Some(get_tier_for_amount(Unwrap(bond).bonded_amount)) ELSE None
get_emergency_config == emergency_config
get_latest_emergency_record_id == latest_record_id
get_emergency_record(id) == get_record(id)

-----------------------------------------------------------------------------
\* The calls tried in a step: every entry point, its arguments drawn from
\* the sets of the input record I, as long as fewer than I.calls calls have
\* been committed.
NextOver(I) ==
    \/ \E auth \in I.any_auth, adm \in I.admins :
          ncalls < I.calls /\ initialize(auth, adm)
    \/ \E auth \in I.any_auth, adm \in I.admins, t \in Treasuries, bps \in I.bps :
          ncalls < I.calls /\ set_early_exit_config(auth, adm, t, bps)
    \/ \E auth \in I.auth, adm \in I.admins, g \in I.governances, t \in Treasuries,
          bps \in I.bps, en \in I.enabled :
          ncalls < I.calls /\ set_emergency_config(auth, adm, g, t, bps, en)
    \/ \E auth \in I.auth, adm \in I.admins, g \in I.governances, en \in BOOLEAN :
          ncalls < I.calls /\ set_emergency_mode(auth, adm, g, en)
    \/ \E auth \in I.auth, adm \in I.admins, g \in I.governances,
          a \in I.amounts, r \in Reasons :
          ncalls < I.calls /\ emergency_withdraw(auth, adm, g, a, r)
    \/ \E auth \in I.any_auth, id \in I.identities, a \in I.amounts,
          d \in I.durations, kind \in I.kinds :
          ncalls < I.calls /\ create_bond(auth, id, a, d, kind[1], kind[2])
    \/ \E auth \in I.any_auth, a \in I.amounts :
          ncalls < I.calls /\ withdraw(auth, a)
    \/ \E auth \in I.any_auth, a \in I.amounts :
          ncalls < I.calls /\ withdraw_early(auth, a)
    \/ \E auth \in I.any_auth : ncalls < I.calls /\ request_withdrawal(auth)
    \/ \E auth \in I.any_auth : ncalls < I.calls /\ renew_if_rolling(auth)
    \/ \E auth \in I.any_auth, adm \in I.admins, a \in I.amounts :
          ncalls < I.calls /\ slash(auth, adm, a)
    \/ \E auth \in I.any_auth, a \in I.amounts :
          ncalls < I.calls /\ top_up(auth, a)
    \/ \E auth \in I.any_auth, d \in I.durations :
          ncalls < I.calls /\ extend_duration(auth, d)
    \/ advance_time

\* inputs that vary the bond: amounts of either sign and at the edge of the
\* type, durations up to the edge of the type, rolling and fixed bonds
BondInputs ==
    [auth |-> {{"A", "G"}}, any_auth |-> {{}}, admins |-> {"A"},
     governances |-> {"G"}, identities |-> {"A"},
     amounts |-> {-1, 1, 2, I128_MAX}, durations |-> {0, 1, U64_MAX},
     kinds |-> {<<FALSE, 0>>, <<TRUE, 0>>, <<TRUE, 1>>},
     bps |-> {5000}, enabled |-> {TRUE}, calls |-> MaxCalls]

Next == NextOver(BondInputs)

Spec == Init /\ [][Next]_vars

\* inputs that vary who is named and who signs
AuthInputs ==
    [auth |-> SUBSET Addr, any_auth |-> {{}, Addr}, admins |-> Addr,
     governances |-> Addr, identities |-> {"A"},
     amounts |-> {0, 1}, durations |-> {1},
     kinds |-> {<<FALSE, 0>>}, bps |-> {0}, enabled |-> BOOLEAN, calls |-> MaxCalls]

NextAuth == NextOver(AuthInputs)

SpecAuth == Init /\ [][NextAuth]_vars

\* inputs that vary the emergency fee and the amounts withdrawn
EmergencyInputs ==
    [auth |-> {{"A", "G"}}, any_auth |-> {{}}, admins |-> {"A"},
     governances |-> {"G"}, identities |-> {"A"},
     amounts |-> {1, 2, I128_MAX}, durations |-> {1},
     kinds |-> {<<FALSE, 0>>}, bps |-> {0, 5000, 10000, 10001},
     enabled |-> {TRUE}, calls |-> MaxEmergencyCalls]

NextEmergency == NextOver(EmergencyInputs)

SpecEmergency == Init /\ [][NextEmergency]_vars

\* inputs that vary the bond's period against the whole range of the ledger
\* timestamp: a duration of more than half the range, and the largest one
LateInputs ==
    [auth |-> {{"A", "G"}}, any_auth |-> {{}}, admins |-> {"A"},
     governances |-> {"G"}, identities |-> {"A"},
     amounts |-> {1}, durations |-> {1, U64_MAX \div 2 + 1, U64_MAX},
     kinds |-> {<<FALSE, 0>>, <<TRUE, 0>>},
     bps |-> {0}, enabled |-> {TRUE}, calls |-> MaxCalls]

NextLate == NextOver(LateInputs) \/ advance_time_late

SpecLate == Init /\ [][NextLate]_vars

-----
(* Properties *)

Withdrawals == {"withdraw", "withdraw_early", "emergency_withdraw"}

\* the last step was a call of op that returned
Returned(op) == last.op = op /\ last.ok

\* C1: in every reachable bond state 0 <= slashed_amount <= bonded_amount.
C1_SlashedWithinBonded ==
    IsSome(bond) =>
        /\ 0 <= Unwrap(bond).slashed_amount
        /\ Unwrap(bond).slashed_amount <= Unwrap(bond).bonded_amount

\* the time gate the specification puts on withdraw
withdraw_gate_open(b, t) ==
    IF b.is_rolling
    THEN /\ b.withdrawal_requested_at # 0
         /\ t >= b.withdrawal_requested_at + b.notice_period_duration
    ELSE t >= b.bond_start + b.bond_duration

\* C2: withdraw returns only when its time gate is open: for a non-rolling
\* bond at or after bond_start + bond_duration, for a rolling bond with a
\* pending request whose notice period has elapsed.
C2_WithdrawOnlyWhenGateOpen ==
    [][Returned("withdraw")' => (IsSome(bond) /\ withdraw_gate_open(Unwrap(bond), now))]_vars

\* C3: a withdrawal of any of the three kinds returns only when amount is at
\* most bonded_amount - slashed_amount of the stored bond, it then takes
\* exactly amount off bonded_amount and leaves slashed_amount alone; a call
\* that fails leaves the store unchanged.
C3_WithdrawalsWithinAvailable ==
    [][/\ (last'.op \in Withdrawals /\ last'.ok) =>
            /\ IsSome(bond)
            /\ last'.amount <= Unwrap(bond).bonded_amount - Unwrap(bond).slashed_amount
            /\ Unwrap(bond').bonded_amount = Unwrap(bond).bonded_amount - last'.amount
            /\ Unwrap(bond').slashed_amount = Unwrap(bond).slashed_amount
            /\ Unwrap(bond').slashed_amount <= Unwrap(bond').bonded_amount
       /\ ~last'.ok => UNCHANGED store]_vars

\* C3 witness: a withdrawal took a slashed bond down to exactly its slashed
\* amount.
C3_Witness ==
    /\ last.op \in Withdrawals /\ last.ok /\ last.amount > 0
    /\ Unwrap(bond).slashed_amount > 0
    /\ Unwrap(bond).bonded_amount = Unwrap(bond).slashed_amount

\* C4: slash changes the bond only when the admin argument is the stored
\* admin and that principal signed the call.
C4_SlashNeedsAdminSignature ==
    [][(Returned("slash")' /\ bond' # bond) =>
          /\ IsSome(admin)
          /\ last'.admin = Unwrap(admin)
          /\ last'.admin \in last'.auth]_vars

\* the enabled flag of the emergency configuration differs between this
\* state and the next
emergency_mode_changes ==
    /\ IsSome(emergency_config)
    /\ IsSome(emergency_config')
    /\ Unwrap(emergency_config').enabled # Unwrap(emergency_config).enabled

\* the governance principal differs between this state and the next
governance_replaced ==
    /\ IsSome(emergency_config)
    /\ IsSome(emergency_config')
    /\ Unwrap(emergency_config').governance # Unwrap(emergency_config).governance

\* C5: every step that changes the enabled flag is signed by both the
\* stored admin and the configured governance (as set_emergency_mode
\* demands), and the governance principal is never replaced in a step that
\* governance did not sign: the admin alone can do neither.
C5_ModeChangeNeedsBothSignatures ==
    [][/\ emergency_mode_changes =>
            /\ IsSome(admin)
            /\ Unwrap(admin) \in last'.auth
            /\ Unwrap(emergency_config).governance \in last'.auth
       /\ governance_replaced =>
            Unwrap(emergency_config).governance \in last'.auth]_vars

\* C6: emergency_withdraw returns only from a state where admin is the stored
\* admin, governance is the configured one, emergency mode is enabled,
\* amount > 0, both principals signed and amount is within the unslashed
\* balance; lock-up end and notice period play no part.
C6_EmergencyWithdrawPreconditions ==
    [][Returned("emergency_withdraw")' =>
          /\ IsSome(admin)
          /\ last'.admin = Unwrap(admin)
          /\ IsSome(emergency_config)
          /\ last'.governance = Unwrap(emergency_config).governance
          /\ Unwrap(emergency_config).enabled
          /\ last'.amount > 0
          /\ {last'.admin, last'.governance} \subseteq last'.auth
          /\ IsSome(bond)
          /\ last'.amount <= Unwrap(bond).bonded_amount - Unwrap(bond).slashed_amount]_vars

\* C6 witness: an emergency withdrawal approved by two distinct principals
\* returned while the bond was still locked up.
C6_Witness ==
    /\ Returned("emergency_withdraw")
    /\ last.admin # last.governance
    /\ now < Unwrap(bond).bond_start + Unwrap(bond).bond_duration

\* C7: a record once written is returned unchanged by get_emergency_record
\* after every later step, and get_latest_emergency_record_id never decreases.
C7_RecordsImmutable ==
    [][/\ \A id \in 0..U64_MAX :
            IsSome(get_emergency_record(id)) =>
                get_emergency_record(id)' = get_emergency_record(id)
       /\ get_latest_emergency_record_id' >= get_latest_emergency_record_id]_vars

\* C7 witness: a second emergency withdrawal was recorded at a later time
\* than the first, whose record is still there.
C7_Witness ==
    /\ get_latest_emergency_record_id = 2
    /\ IsSome(get_emergency_record(1))
    /\ IsSome(get_emergency_record(2))
    /\ Unwrap(get_emergency_record(1)).timestamp < Unwrap(get_emergency_record(2)).timestamp

\* records exist for exactly the ids 1..latest, each under its own id
records_dense ==
    /\ DOMAIN records = 1..get_latest_emergency_record_id
    /\ \A id \in DOMAIN records : records[id].id = id
    /\ ~IsSome(get_emergency_record(0))
    /\ ~IsSome(get_emergency_record(get_latest_emergency_record_id + 1))

\* C8: record ids are dense and sequential: the latest id starts at 0, an
\* emergency_withdraw that returns raises it by exactly 1 and stores one
\* record under the new id, no other step changes it, and records exist for
\* exactly the ids 1..latest.
C8_RecordIdsDense ==
    [][/\ records_dense
       /\ records_dense'
       /\ Returned("emergency_withdraw")' =>
            /\ get_latest_emergency_record_id' = get_latest_emergency_record_id + 1
            /\ DOMAIN records' = DOMAIN records \cup {get_latest_emergency_record_id'}
       /\ ~Returned("emergency_withdraw")' =>
            /\ get_latest_emergency_record_id' = get_latest_emergency_record_id
            /\ records' = records]_vars

\* C8 witness: the second emergency withdrawal has just returned.
C8_Witness ==
    /\ Returned("emergency_withdraw")
    /\ DOMAIN records = {1, 2}
    /\ emergency_record_seq = Some(2)

\* C9: no step lowers the stored slashed_amount.
C9_SlashedNeverDecreases ==
    [][(IsSome(bond) /\ IsSome(bond')) =>
          Unwrap(bond').slashed_amount >= Unwrap(bond).slashed_amount]_vars

\* C10: an emergency_withdraw of gross amount a that returns under fee rate
\* bps records fee = floor(a * bps / 10000) and net = a - fee with
\* 0 <= fee <= a and gross = a = fee + net, takes exactly a off
\* bonded_amount and leaves slashed_amount alone.
C10_EmergencyFeeAndDebit ==
    [][Returned("emergency_withdraw")' =>
          LET a == last'.amount
              bps == Unwrap(emergency_config).emergency_fee_bps
              rec == Unwrap(get_emergency_record(get_latest_emergency_record_id))'
          IN /\ rec.fee_amount = (a * bps) \div 10000
             /\ rec.net_amount = a - rec.fee_amount
             /\ 0 <= rec.fee_amount /\ rec.fee_amount <= a
             /\ rec.gross_amount = a
             /\ rec.gross_amount = rec.fee_amount + rec.net_amount
             /\ Unwrap(bond').bonded_amount = Unwrap(bond).bonded_amount - a
             /\ Unwrap(bond').slashed_amount = Unwrap(bond).slashed_amount]_vars

\* C10 witness: an emergency withdrawal with a non-zero fee and a non-zero
\* net amount returned.
C10_Witness ==
    /\ Returned("emergency_withdraw")
    /\ Unwrap(get_emergency_record(get_latest_emergency_record_id)).fee_amount > 0
    /\ Unwrap(get_emergency_record(get_latest_emergency_record_id)).net_amount > 0

\* C11: withdraw_early returns only while now is strictly before the lock-up
\* end bond_start + bond_duration and amount is at most bonded_amount -
\* slashed_amount; at or after the lock-up end it fails, and a call that
\* fails leaves the bond as it was.
C11_WithdrawEarlyOnlyBeforeLockUpEnd ==
    [][/\ Returned("withdraw_early")' =>
            /\ IsSome(bond)
            /\ now < Unwrap(bond).bond_start + Unwrap(bond).bond_duration
            /\ last'.amount <= Unwrap(bond).bonded_amount - Unwrap(bond).slashed_amount
       /\ ~last'.ok => bond' = bond]_vars

\* C11 witness: an early withdrawal returned after time had passed since the
\* bond started, still before its lock-up end.
C11_Witness ==
    /\ Returned("withdraw_early")
    /\ now > Unwrap(bond).bond_start
    /\ now < Unwrap(bond).bond_start + Unwrap(bond).bond_duration

\* C12: a withdraw or withdraw_early that returns never leaves bonded_amount
\* larger than it was, whatever the amount (zero and negative included).
C12_WithdrawalNeverRaisesBonded ==
    [][(last'.op \in {"withdraw", "withdraw_early"} /\ last'.ok) =>
          Unwrap(bond').bonded_amount <= Unwrap(bond).bonded_amount]_vars

\* C13: request_withdrawal returns only on a rolling bond with no pending
\* request, and a request_withdrawal that directly follows one that returned
\* (no renewal in between, at any timestamp, 0 included) does not return and
\* leaves withdrawal_requested_at at the time of the first request.
C13_SecondRequestFails ==
    [][/\ Returned("request_withdrawal")' =>
            /\ IsSome(bond)
            /\ Unwrap(bond).is_rolling
            /\ Unwrap(bond).withdrawal_requested_at = 0
       /\ Returned("request_withdrawal") =>
            /\ ~Returned("request_withdrawal")'
            /\ last'.op = "panic" =>
                 Unwrap(bond').withdrawal_requested_at = Unwrap(bond).withdrawal_requested_at]_vars

\* C14: renew_if_rolling is idempotent at a fixed time: a renew_if_rolling
\* that directly follows one that returned, at the same timestamp, stores
\* the same bond and is a no-op (no state change, no bond_renewed event).
C14_RenewIdempotent ==
    [][(Returned("renew_if_rolling") /\ Returned("renew_if_rolling")') =>
          /\ now' = now
          /\ bond' = bond
          /\ last'.events = << >>]_vars

\* the tier of the stored bond, Bronze when there is none
tier_of(stored) ==
    IF IsSome(stored) THEN get_tier_for_amount(Unwrap(stored).bonded_amount)
    ELSE "Bronze"

tier_changed_events(events) == SelectSeq(events, LAMBDA ev : ev.name = "tier_changed")

\* C15: get_tier is the tier of bonded_amount in every state, and a step
\* publishes exactly one tier_changed event, carrying the old and the new
\* tier, if and only if the tier of the stored bond before the step (Bronze
\* when there is no bond) differs from the tier after it; otherwise it
\* publishes none.
C15_TierConsistency ==
    [][/\ IsSome(bond') =>
            get_tier' = Some(get_tier_for_amount(Unwrap(bond').bonded_amount))
       /\ tier_changed_events(last'.events) =
            IF tier_of(bond) # tier_of(bond')
            THEN << [name |-> "tier_changed",
                     data |-> <<Unwrap(bond').identity, tier_of(bond), tier_of(bond')>>] >>
            ELSE << >>]_vars

C17_IdentityAndRollingImmutable ==
    [][IsSome(bond) =>
          /\ IsSome(bond')
          /\ Unwrap(bond').identity = Unwrap(bond).identity
          /\ Unwrap(bond').is_rolling = Unwrap(bond).is_rolling]_vars

\* the entry points C18 names
HolderAndSetupCalls ==
    {"create_bond", "top_up", "withdraw", "withdraw_early", "request_withdrawal",
     "renew_if_rolling", "extend_duration", "initialize", "set_early_exit_config"}

\* C18: a call of create_bond, top_up, withdraw, withdraw_early,
\* request_withdrawal, renew_if_rolling, extend_duration, initialize or
\* set_early_exit_config that no principal has authorized changes neither
\* the admin nor the bond nor a configuration.
C18_UnauthorizedCallChangesNothing ==
    [][(last'.op \in HolderAndSetupCalls /\ last'.auth = {}) =>
          UNCHANGED <<admin, bond, early_exit_config, emergency_config>>]_vars

\* the holder has requested withdrawal and the notice period has elapsed
notice_elapsed(b, t) ==
    /\ b.withdrawal_requested_at # 0
    /\ t >= b.withdrawal_requested_at + b.notice_period_duration

\* C19: when the holder has requested withdrawal and the notice period has
\* elapsed, renew_if_rolling neither restarts the period nor clears the
\* pending request.
C19_NoRenewalAfterNotice ==
    [][(/\ IsSome(bond)
        /\ notice_elapsed(Unwrap(bond), now)
        /\ Returned("renew_if_rolling")') =>
          /\ Unwrap(bond').bond_start = Unwrap(bond).bond_start
          /\ Unwrap(bond').withdrawal_requested_at = Unwrap(bond).withdrawal_requested_at]_vars

\* C20: a slash that returns sets slashed_amount to
\* min(slashed_amount + amount, bonded_amount) and changes nothing else of
\* the bond, the tier, the configurations or the emergency records; the
\* withdrawable balance bonded_amount - slashed_amount drops by at most
\* amount and does not end below 0.
C20_SlashClampsAndFrames ==
    [][Returned("slash")' =>
          LET b == Unwrap(bond)
              nb == Unwrap(bond')
              a == last'.amount
              sum == b.slashed_amount + a
          IN /\ nb.slashed_amount = IF sum <= b.bonded_amount THEN sum ELSE b.bonded_amount
             /\ nb = [b EXCEPT !.slashed_amount = nb.slashed_amount]
             /\ get_tier' = get_tier
             /\ UNCHANGED <<admin, early_exit_config, emergency_config,
                            emergency_record_seq, records>>
             /\ (b.bonded_amount - b.slashed_amount)
                  - (nb.bonded_amount - nb.slashed_amount) <= a
             /\ nb.bonded_amount - nb.slashed_amount >= 0]_vars

\* C20 witness: a slash of more than the remaining balance returned and was
\* clamped to bonded_amount.
C20_Witness ==
    /\ Returned("slash")
    /\ last.amount > Unwrap(bond).bonded_amount
    /\ Unwrap(bond).bonded_amount > 0
    /\ Unwrap(bond).slashed_amount = Unwrap(bond).bonded_amount

\* C21: in every reachable bond state the lock-up end bond_start +
\* bond_duration fits in the unsigned 64-bit timestamp: create_bond and
\* extend_duration abort when it would not, and no other operation
\* (renew_if_rolling included) stores a bond whose end overflows.
C21_LockUpEndFits ==
    IsSome(bond) => InU64(Unwrap(bond).bond_start + Unwrap(bond).bond_duration)

\* the entry points that compare their admin argument with the stored admin
AdminGatedCalls ==
    {"slash", "set_early_exit_config", "set_emergency_config",
     "set_emergency_mode", "emergency_withdraw"}

\* C22: the stored admin is set once: after the first initialize no step
\* (another initialize included) changes it, and while no admin is stored no
\* call of slash, set_early_exit_config, set_emergency_config,
\* set_emergency_mode or emergency_withdraw returns.
C22_AdminSetOnce ==
    [][/\ IsSome(admin) => admin' = admin
       /\ (~IsSome(admin) /\ last'.op \in AdminGatedCalls) => ~last'.ok]_vars

====
